---- MODULE Spec2Model ----
(***************************************************************************)
(* A model of concurrent_log.py: NetworkMonitor, its three field           *)
(* extractors, collect_data_sample, the CSV recorder and the sampling loop  *)
(* of NetworkMonitor.run.                                                   *)
(*                                                                         *)
(* Text is a sequence of one-character strings.  A command's output is      *)
(* represented by what each regular expression of the extractor captures    *)
(* from it: the captured character run, or the empty run when re.search     *)
(* finds no match (every capture group of the source is a `+` group, so a   *)
(* match never captures the empty run).  An optional value is a sequence of *)
(* length 0 (None) or 1.  A float is kept in fixed point, in units of       *)
(* 1/Scale.  Time is counted in whole seconds.                             *)
(***************************************************************************)
EXTENDS Integers, Sequences, FiniteSets, TLC

\* ---------------------------------------------------------------- bounds
MaxDuration == 2
MaxInterval == 2
MaxCollectTime == 1
MaxOversleep == 1
MaxCalls == 2
FracDigits == 3

\* ------------------------------------------------------------ text, values
None == <<>>
Some(v) == <<v>>

DigitChars == {"0", "1", "2", "3", "4", "5", "6", "7", "8", "9"}

DigitVal(c) ==
  CASE c = "0" -> 0 [] c = "1" -> 1 [] c = "2" -> 2 [] c = "3" -> 3
    [] c = "4" -> 4 [] c = "5" -> 5 [] c = "6" -> 6 [] c = "7" -> 7
    [] c = "8" -> 8 [] c = "9" -> 9

RECURSIVE Pow10(_)
Pow10(n) == IF n = 0 THEN 1 ELSE 10 * Pow10(n - 1)

Scale == Pow10(FracDigits)

\* The value of a run of decimal digits (0 for the empty run).
RECURSIVE NatOf(_)
NatOf(r) ==
  IF r = <<>> THEN 0
  ELSE 10 * NatOf(SubSeq(r, 1, Len(r) - 1)) + DigitVal(r[Len(r)])

Dots(r) == {i \in 1..Len(r) : r[i] = "."}

\* The value of the digits after the point, in units of 1/Scale.
FracOf(r) ==
  IF Len(r) >= FracDigits THEN NatOf(SubSeq(r, 1, FracDigits))
  ELSE NatOf(r) * Pow10(FracDigits - Len(r))

\* Python's float(text) on a run matched by [0-9.]+ : ValueError unless the
\* run holds at most one point and at least one digit.
FloatRaises(r) == Cardinality(Dots(r)) > 1 \/ Cardinality(Dots(r)) = Len(r)

FloatOf(r) ==
  IF Dots(r) = {} THEN NatOf(r) * Scale
  ELSE LET p == CHOOSE i \in Dots(r) : TRUE
       IN  NatOf(SubSeq(r, 1, p - 1)) * Scale + FracOf(SubSeq(r, p + 1, Len(r)))

\* Python's int(text) on a run matched by -?[0-9]+ or \d+ : never raises.
IntOf(r) == IF r[1] = "-" THEN 0 - NatOf(Tail(r)) ELSE NatOf(r)

\* The FracDigits digits of f (f < Scale) without trailing zeros but with at
\* least one digit, as repr(float) writes the digits after the point.
RECURSIVE FracText(_, _)
FracText(f, n) ==
  IF n > 1 /\ f % 10 = 0 THEN FracText(f \div 10, n - 1)
  ELSE IF n = 1 THEN ToString(f)
  ELSE FracText(f \div 10, n - 1) \o ToString(f % 10)

\* str(x) of a float, as csv.writer writes it.
FloatText(v) == ToString(v \div Scale) \o "." \o FracText(v % Scale, FracDigits)

\* str(n) of an int.
IntText(n) == ToString(n)

Pad2(n) == IF n < 10 THEN "0" \o ToString(n) ELSE ToString(n)

\* datetime.now().strftime('%Y-%m-%d %H:%M:%S'), for the clock reading t in
\* seconds after midnight of the day the run starts.
TimestampText(t) ==
  "2025-01-01 " \o Pad2(t \div 3600) \o ":" \o Pad2((t % 3600) \div 60) \o ":" \o Pad2(t % 60)

\* ------------------------------------------------------------- extractors
\* What an extractor returns to its future: a value, or the exception raised.
Returned(v) == [raised |-> FALSE, value |-> v]
Raised == [raised |-> TRUE, value |-> <<>>]

\* float(match.group(1)) if match else None
FloatField(r) == IF r = <<>> THEN None ELSE Some(FloatOf(r))

\* int(match.group(1)) if match else None
IntField(r) == IF r = <<>> THEN None ELSE Some(IntOf(r))

\* out.time is the run captured by time=([0-9.]+).
get_ping_latency(out) ==
  IF out.time # <<>> /\ FloatRaises(out.time) THEN Raised
  ELSE Returned(<<FloatField(out.time)>>)

\* out.rx, out.tx are the runs captured by [rt]x bitrate:\s+([0-9.]+)\s+MBit/s,
\* out.signal the run captured by signal:\s+(-?[0-9]+)\s+dBm.
get_link_info(out) ==
  IF out.rx # <<>> /\ FloatRaises(out.rx) THEN Raised
  ELSE IF out.tx # <<>> /\ FloatRaises(out.tx) THEN Raised
  ELSE Returned(<<FloatField(out.rx), FloatField(out.tx), IntField(out.signal)>>)

\* out.channel, out.width, out.center1 are the runs captured by the three
\* (\d+) patterns, out.txpower the run captured by txpower\s+([0-9.]+)\s+dBm.
get_interface_info(out) ==
  LET frequency == IntField(out.channel)
      centre_frequency == IF out.center1 # <<>> THEN IntField(out.center1) ELSE frequency
  IN  IF out.txpower # <<>> /\ FloatRaises(out.txpower) THEN Raised
      ELSE Returned(<<frequency, IntField(out.width), centre_frequency,
                      FloatField(out.txpower)>>)

\* The outputs of `ping -c 1 -W 1 <ip>`: nothing or no time= (the command
\* failed, timed out or printed no round-trip time), a well-formed time, a zero
\* time, and runs of digits and points that are no number.
PingOutputs ==
  { [time |-> <<>>],
    [time |-> <<"2", "3", ".", "4">>],
    [time |-> <<"0", ".", "0">>],
    [time |-> <<"1", ".", "2", ".", "3">>],
    [time |-> <<".">>] }

\* The outputs of `iw dev <if> link`.
LinkOutputs ==
  { [rx |-> <<>>, tx |-> <<>>, signal |-> <<>>],
    [rx |-> <<"8", "6", "6", ".", "7">>, tx |-> <<>>, signal |-> <<"-", "5", "4">>],
    [rx |-> <<"6">>, tx |-> <<"1", ".", ".">>, signal |-> <<"-", "5", "4">>] }

\* The outputs of `iw dev <if> info`.
InfoOutputs ==
  { [channel |-> <<>>, width |-> <<>>, center1 |-> <<>>, txpower |-> <<>>],
    [channel |-> <<"5", "1", "8", "0">>, width |-> <<"8", "0">>, center1 |-> <<>>,
     txpower |-> <<"2", "2", ".", "0">>],
    [channel |-> <<"5", "1", "8", "0">>, width |-> <<"8", "0">>,
     center1 |-> <<"5", "2", "1", "0">>, txpower |-> <<".", ".">>] }

\* ------------------------------------------------------------------ sample
\* The dict collect_data_sample returns, from the clock and the three results.
Sample(t, ping, link, info) ==
  [ timestamp |-> TimestampText(t),
    latency_ms |-> ping[1],
    rx_bitrate_mbps |-> link[1],
    tx_bitrate_mbps |-> link[2],
    signal_strength_dbm |-> link[3],
    frequency_mhz |-> info[1],
    width_mhz |-> info[2],
    centre_frequency_mhz |-> info[3],
    tx_power_dbm |-> info[4] ]

\* --------------------------------------------------------------------- csv
fieldnames ==
  << "timestamp", "latency_ms", "rx_bitrate_mbps", "tx_bitrate_mbps",
     "signal_strength_dbm", "frequency_mhz", "width_mhz",
     "centre_frequency_mhz", "tx_power_dbm" >>

\* csv writes None as the empty string and any other value as str(value).
FloatCell(v) == IF v = None THEN "" ELSE FloatText(v[1])
IntCell(v) == IF v = None THEN "" ELSE IntText(v[1])

\* DictWriter.writeheader: the row of the field names.
HeaderRow == fieldnames

\* DictWriter.writerow(data): the cells of data in the order of fieldnames.
DataRow(d) ==
  << d.timestamp, FloatCell(d.latency_ms), FloatCell(d.rx_bitrate_mbps),
     FloatCell(d.tx_bitrate_mbps), IntCell(d.signal_strength_dbm),
     IntCell(d.frequency_mhz), IntCell(d.width_mhz),
     IntCell(d.centre_frequency_mhz), FloatCell(d.tx_power_dbm) >>

\* ------------------------------------------------------------------- state
Tasks == {"ping", "link", "info"}
Writers == {"w1", "w2"}
Threads == {"main"} \cup Writers
NoThread == "none"

VARIABLES
  duration,      \* self.duration
  interval,      \* self.interval
  running,       \* self.running
  pc,            \* where the main thread is in run()
  now,           \* the clock, in seconds
  start_time,    \* run's start_time
  end_time,      \* run's end_time
  tick,          \* iterations of the sampling loop begun
  fut,           \* the state of the three futures of this tick
  res,           \* what each finished future holds
  exc,           \* an exception is propagating out of collect_data_sample
  data,          \* run's data: None or the sample of this tick
  file,          \* the rows of the output file
  data_lock,     \* the thread holding self.data_lock, or NoThread
  wpc,           \* where each thread is in write_data_row
  wdata,         \* the argument of each thread's write_data_row call
  wbuf,          \* the rows in each thread's csvfile buffer, not yet flushed
  wcalls,        \* write_data_row calls begun by each thread
  shown,         \* the latency text of the last progress line
  fatal,         \* "none", or what raised out of run()
  exit_reason,   \* "none", or why the sampling loop ended
  header_writes, \* history: write_csv_header calls completed
  returned,      \* history: the samples of the write_data_row calls that returned
  built,         \* history: samples built by collect_data_sample
  waits,         \* history: time.sleep calls of the loop completed
  late_waits,    \* history: those begun at or after end_time
  plots_calls,   \* history: create_plots calls
  cancel_at      \* history: None, or the tick and pc at which the signal arrived

vars ==
  << duration, interval, running, pc, now, start_time, end_time, tick, fut, res,
     exc, data, file, data_lock, wpc, wdata, wbuf, wcalls, shown, fatal,
     exit_reason, header_writes, returned, built, waits, late_waits,
     plots_calls, cancel_at >>

config == << duration, interval >>
clock == << now, start_time, end_time >>
collector == << fut, res, exc >>
recorder == << file, data_lock, wpc, wdata, wbuf, wcalls, returned >>
history == << header_writes, built, waits, late_waits, plots_calls >>

\* NetworkMonitor.__init__: running is True, the lock is free, and (in run)
\* nothing is written yet.
InitMonitor ==
  /\ running = TRUE
  /\ now = 0 /\ start_time = 0 /\ end_time = 0
  /\ tick = 0
  /\ fut = [t \in Tasks |-> "none"]
  /\ res = [t \in Tasks |-> <<>>]
  /\ exc = FALSE
  /\ data = None
  /\ data_lock = NoThread
  /\ wpc = [t \in Threads |-> "idle"]
  /\ wdata = [t \in Threads |-> None]
  /\ wbuf = [t \in Threads |-> <<>>]
  /\ wcalls = [t \in Threads |-> 0]
  /\ shown = None
  /\ fatal = "none"
  /\ exit_reason = "none"
  /\ returned = <<>>
  /\ built = 0 /\ waits = 0 /\ late_waits = 0 /\ plots_calls = 0
  /\ cancel_at = None

Init ==
  /\ duration \in 0..MaxDuration
  /\ interval \in 1..MaxInterval
  /\ pc = "init"
  /\ file = <<>>
  /\ header_writes = 0
  /\ InitMonitor

\* ---------------------------------------------------------- signal_handler
\* Runs in the main thread between two of its steps, while the process lives.
signal_handler ==
  /\ pc \notin {"done", "fatal", "harness"}
  /\ running
  /\ running' = FALSE
  /\ cancel_at' = Some(<<tick, pc>>)
  /\ UNCHANGED << config, pc, clock, tick, collector, data, recorder, shown,
                  fatal, exit_reason, history >>

\* -------------------------------------------------------- write_csv_header
\* open(output_file, 'w') truncates; writeheader writes the one header row.
write_csv_header ==
  /\ pc = "init"
  /\ file' = <<HeaderRow>>
  /\ header_writes' = header_writes + 1
  /\ pc' = "start"
  /\ UNCHANGED << config, running, clock, tick, collector, data, data_lock, wpc,
                  wdata, wbuf, wcalls, returned, shown, fatal, exit_reason,
                  built, waits, late_waits, plots_calls, cancel_at >>

\* open raises OSError: the exception leaves run(), which has no handler for it.
write_csv_header_fails ==
  /\ pc = "init"
  /\ pc' = "fatal"
  /\ fatal' = "header"
  /\ UNCHANGED << config, running, clock, tick, collector, data, recorder, shown,
                  exit_reason, history, cancel_at >>

\* ---------------------------------------------------------------- run loop
\* start_time = time.time(); end_time = start_time + self.duration
StartClock ==
  /\ pc = "start"
  /\ start_time' = now
  /\ end_time' = now + duration
  /\ pc' = "loop"
  /\ UNCHANGED << config, running, now, tick, collector, data, recorder, shown,
                  fatal, exit_reason, history, cancel_at >>

\* Mutant of LoopCheck: a cancelled loop ends the run at once, without the
\* summary.
LoopCheckExitsOnCancel ==
  /\ pc = "loop"
  /\ IF running /\ now < end_time
     THEN /\ pc' = "submit"
          /\ tick' = tick + 1
          /\ UNCHANGED exit_reason
     ELSE /\ pc' = IF running THEN "summary" ELSE "done"
          /\ exit_reason' = IF running THEN "completed" ELSE "cancelled"
          /\ UNCHANGED tick
  /\ UNCHANGED << config, running, clock, collector, data, recorder, shown,
                  fatal, history, cancel_at >>

\* while self.running and time.time() < end_time
LoopCheck ==
  /\ pc = "loop"
  /\ IF running /\ now < end_time
     THEN /\ pc' = "submit"
          /\ tick' = tick + 1
          /\ UNCHANGED exit_reason
     ELSE /\ pc' = "summary"
          /\ exit_reason' = IF running THEN "completed" ELSE "cancelled"
          /\ UNCHANGED tick
  /\ UNCHANGED << config, running, clock, collector, data, recorder, shown,
                  fatal, history, cancel_at >>

\* ----------------------------------------------------- collect_data_sample
\* The three executor.submit calls: every task starts.
Submit ==
  /\ pc = "submit"
  /\ fut' = [t \in Tasks |-> "running"]
  /\ res' = [t \in Tasks |-> <<>>]
  /\ pc' = "result_ping"
  /\ UNCHANGED << config, running, clock, tick, exc, data, recorder, shown,
                  fatal, exit_reason, history, cancel_at >>

\* A worker thread runs its extractor on the command's output and sets the future.
TaskEnds(t, r) ==
  /\ fut[t] = "running"
  /\ fut' = [fut EXCEPT ![t] = IF r.raised THEN "raised" ELSE "done"]
  /\ res' = [res EXCEPT ![t] = r.value]
  /\ UNCHANGED << config, running, pc, clock, tick, exc, data, recorder, shown,
                  fatal, exit_reason, history, cancel_at >>

PingTask == \E out \in PingOutputs : TaskEnds("ping", get_ping_latency(out))
LinkTask == \E out \in LinkOutputs : TaskEnds("link", get_link_info(out))
InfoTask == \E out \in InfoOutputs : TaskEnds("info", get_interface_info(out))

\* future.result(): blocks until the future is set, then returns its value or
\* raises its exception, which leaves the with block.
Result(t, next) ==
  /\ pc = "result_" \o t
  /\ fut[t] # "running"
  /\ IF fut[t] = "raised"
     THEN exc' = TRUE /\ pc' = "shutdown"
     ELSE exc' = exc /\ pc' = next
  /\ UNCHANGED << config, running, clock, tick, fut, res, data, recorder, shown,
                  fatal, exit_reason, history, cancel_at >>

PingResult == Result("ping", "result_link")
LinkResult == Result("link", "result_info")
InfoResult == Result("info", "shutdown")

\* The end of the with block: executor.shutdown(wait=True) returns when every
\* task has ended; the collection has taken some time.  An exception of a
\* future then leaves collect_data_sample and run().
Shutdown ==
  /\ pc = "shutdown"
  /\ \A t \in Tasks : fut[t] # "running"
  /\ \E d \in 0..MaxCollectTime : now' = now + d
  /\ IF exc
     THEN pc' = "fatal" /\ fatal' = "parse"
     ELSE pc' = "build" /\ fatal' = fatal
  /\ UNCHANGED << config, running, start_time, end_time, tick, collector, data,
                  recorder, shown, exit_reason, history, cancel_at >>

\* return {'timestamp': datetime.now()..., ...}, assigned to run's data.
Build ==
  /\ pc = "build"
  /\ data' = Some(Sample(now, res["ping"], res["link"], res["info"]))
  /\ built' = built + 1
  /\ pc' = "write"
  /\ UNCHANGED << config, running, clock, tick, collector, recorder, shown,
                  fatal, exit_reason, header_writes, waits, late_waits,
                  plots_calls, cancel_at >>

\* ---------------------------------------------------------- write_data_row
\* Mutant of Call: the row is handed to the recorder and run() goes on at once,
\* without waiting for the append.
CallWithoutWaiting(t, d) ==
  /\ wpc[t] = "idle"
  /\ IF t = "main"
     THEN pc = "write" /\ data = Some(d) /\ pc' = "progress"
     ELSE pc = "harness" /\ wcalls[t] < MaxCalls /\ pc' = pc
  /\ wpc' = [wpc EXCEPT ![t] = "acquire"]
  /\ wdata' = [wdata EXCEPT ![t] = Some(d)]
  /\ wcalls' = [wcalls EXCEPT ![t] = @ + 1]
  /\ UNCHANGED << config, running, clock, tick, collector, data, file, data_lock,
                  wbuf, returned, shown, fatal, exit_reason, history, cancel_at >>

\* Thread t calls write_data_row(d).  The main thread does so from run(), with
\* the sample of this tick.
Call(t, d) ==
  /\ wpc[t] = "idle"
  /\ IF t = "main"
     THEN pc = "write" /\ data = Some(d) /\ pc' = "writing"
     ELSE pc = "harness" /\ wcalls[t] < MaxCalls /\ pc' = pc
  /\ wpc' = [wpc EXCEPT ![t] = "acquire"]
  /\ wdata' = [wdata EXCEPT ![t] = Some(d)]
  /\ wcalls' = [wcalls EXCEPT ![t] = @ + 1]
  /\ UNCHANGED << config, running, clock, tick, collector, data, file, data_lock,
                  wbuf, returned, shown, fatal, exit_reason, history, cancel_at >>

\* Mutant of AcquireLock: the lock is taken without waiting for its holder.
AcquireLockUnguarded(t) ==
  /\ wpc[t] = "acquire"
  /\ data_lock' = t
  /\ wpc' = [wpc EXCEPT ![t] = "open"]
  /\ UNCHANGED << config, running, pc, clock, tick, collector, data, file, wdata,
                  wbuf, wcalls, returned, shown, fatal, exit_reason, history,
                  cancel_at >>

\* with self.data_lock: blocks while another thread holds the lock.
AcquireLock(t) ==
  /\ wpc[t] = "acquire"
  /\ data_lock = NoThread
  /\ data_lock' = t
  /\ wpc' = [wpc EXCEPT ![t] = "open"]
  /\ UNCHANGED << config, running, pc, clock, tick, collector, data, file, wdata,
                  wbuf, wcalls, returned, shown, fatal, exit_reason, history,
                  cancel_at >>

\* Mutant of OpenAppend: the file is opened with mode 'w', which truncates it.
OpenTruncate(t) ==
  /\ wpc[t] = "open"
  /\ file' = <<>>
  /\ wpc' = [wpc EXCEPT ![t] = "writerow"]
  /\ UNCHANGED << config, running, pc, clock, tick, collector, data,
                  data_lock, wdata, wbuf, wcalls, returned, shown, fatal,
                  exit_reason, history, cancel_at >>

\* open(self.output_file, 'a', newline=''): the rows of the file stay.
OpenAppend(t) ==
  /\ wpc[t] = "open"
  /\ wpc' = [wpc EXCEPT ![t] = "writerow"]
  /\ UNCHANGED << config, running, pc, clock, tick, collector, data, file,
                  data_lock, wdata, wbuf, wcalls, returned, shown, fatal,
                  exit_reason, history, cancel_at >>

\* Mutant of Raise: write_data_row catches the OSError and returns normally.
RaiseSwallowed(t, at, what) ==
  /\ wpc[t] = at
  /\ data_lock' = NoThread
  /\ wpc' = [wpc EXCEPT ![t] = "idle"]
  /\ wbuf' = [wbuf EXCEPT ![t] = <<>>]
  /\ fatal' = IF t = "main" THEN what ELSE fatal
  /\ pc' = IF t = "main" THEN "progress" ELSE pc
  /\ UNCHANGED << config, running, clock, tick, collector, data, file, wdata,
                  wcalls, returned, shown, exit_reason, history, cancel_at >>

\* An OSError of open or of the flush leaves both with blocks (the lock is
\* released) and write_data_row; in the main thread it leaves run() too.
Raise(t, at, what) ==
  /\ wpc[t] = at
  /\ data_lock' = NoThread
  /\ wpc' = [wpc EXCEPT ![t] = "idle"]
  /\ wbuf' = [wbuf EXCEPT ![t] = <<>>]
  /\ IF t = "main"
     THEN pc' = "fatal" /\ fatal' = what
     ELSE pc' = pc /\ fatal' = fatal
  /\ UNCHANGED << config, running, clock, tick, collector, data, file, wdata,
                  wcalls, returned, shown, exit_reason, history, cancel_at >>

OpenFails(t) == Raise(t, "open", "open")

\* writer.writerow(data): one row into the buffer of csvfile.
WriteRow(t) ==
  /\ wpc[t] = "writerow"
  /\ wbuf' = [wbuf EXCEPT ![t] = Append(@, DataRow(wdata[t][1]))]
  /\ wpc' = [wpc EXCEPT ![t] = "close"]
  /\ UNCHANGED << config, running, pc, clock, tick, collector, data, file,
                  data_lock, wdata, wcalls, returned, shown, fatal, exit_reason,
                  history, cancel_at >>

\* The end of `with open(...)`: the buffer is flushed to the end of the file.
CloseFile(t) ==
  /\ wpc[t] = "close"
  /\ file' = file \o wbuf[t]
  /\ wbuf' = [wbuf EXCEPT ![t] = <<>>]
  /\ wpc' = [wpc EXCEPT ![t] = "release"]
  /\ UNCHANGED << config, running, pc, clock, tick, collector, data, data_lock,
                  wdata, wcalls, returned, shown, fatal, exit_reason, history,
                  cancel_at >>

CloseFails(t) == Raise(t, "close", "write")

\* The end of `with self.data_lock`, and the return of write_data_row.
ReleaseLock(t) ==
  /\ wpc[t] = "release"
  /\ data_lock' = NoThread
  /\ wpc' = [wpc EXCEPT ![t] = "idle"]
  /\ returned' = Append(returned, wdata[t][1])
  /\ pc' = IF t = "main" THEN "progress" ELSE pc
  /\ UNCHANGED << config, running, clock, tick, collector, data, file, wdata,
                  wbuf, wcalls, shown, fatal, exit_reason, history, cancel_at >>

\* ------------------------------------------------------- run loop, the rest
\* print(... f"Latest ping: {data['latency_ms'] or 'N/A'}ms" ...): `or` takes
\* 'N/A' for None and for 0.0.
LatencyText(d) ==
  IF d.latency_ms = None \/ d.latency_ms = Some(0) THEN "N/A"
  ELSE FloatText(d.latency_ms[1])

Progress ==
  /\ pc = "progress"
  /\ shown' = Some(LatencyText(data[1]))
  /\ pc' = "sleep"
  /\ UNCHANGED << config, running, clock, tick, collector, data, recorder, fatal,
                  exit_reason, history, cancel_at >>

\* Mutant of Sleep: the wait is skipped once the end time is reached.
SleepUnlessLate ==
  /\ pc = "sleep"
  /\ IF now >= end_time
     THEN UNCHANGED << now, waits, late_waits >>
     ELSE /\ \E late \in 0..MaxOversleep : now' = now + interval + late
          /\ waits' = waits + 1
          /\ UNCHANGED late_waits
  /\ pc' = "loop"
  /\ UNCHANGED << config, running, start_time, end_time, tick, collector, data,
                  recorder, shown, fatal, exit_reason, header_writes, built,
                  plots_calls, cancel_at >>

\* time.sleep(self.interval), whatever the clock reads: the thread is
\* suspended for the interval or somewhat longer.
Sleep ==
  /\ pc = "sleep"
  /\ \E late \in 0..MaxOversleep : now' = now + interval + late
  /\ waits' = waits + 1
  /\ late_waits' = IF now >= end_time THEN late_waits + 1 ELSE late_waits
  /\ pc' = "loop"
  /\ UNCHANGED << config, running, start_time, end_time, tick, collector, data,
                  recorder, shown, fatal, exit_reason, header_writes, built,
                  plots_calls, cancel_at >>

\* After the loop: the two prints, then self.create_plots().
create_plots ==
  /\ pc = "summary"
  /\ plots_calls' = plots_calls + 1
  /\ pc' = "done"
  /\ UNCHANGED << config, running, clock, tick, collector, data, recorder, shown,
                  fatal, exit_reason, header_writes, built, waits, late_waits,
                  cancel_at >>

\* ------------------------------------------------------------ specification
write_data_row ==
  \/ \E d \in {data[i] : i \in 1..Len(data)} : Call("main", d)
  \/ AcquireLock("main")
  \/ OpenAppend("main")
  \/ OpenFails("main")
  \/ WriteRow("main")
  \/ CloseFile("main")
  \/ CloseFails("main")
  \/ ReleaseLock("main")

collect_data_sample ==
  \/ Submit
  \/ PingTask
  \/ LinkTask
  \/ InfoTask
  \/ PingResult
  \/ LinkResult
  \/ InfoResult
  \/ Shutdown
  \/ Build

Next ==
  \/ signal_handler
  \/ write_csv_header
  \/ write_csv_header_fails
  \/ StartClock
  \/ LoopCheck
  \/ collect_data_sample
  \/ write_data_row
  \/ Progress
  \/ Sleep
  \/ create_plots

Spec == Init /\ [][Next]_vars

\* Several threads calling write_data_row of one monitor whose header is
\* written, each with a sample of its own.
WriterSamples ==
  { Sample(0, get_ping_latency(o).value, <<None, None, None>>, <<None, None, None, None>>)
      : o \in {[time |-> <<>>], [time |-> <<"2", "3", ".", "4">>]} }

InitWriters ==
  /\ duration = 0
  /\ interval = 1
  /\ pc = "harness"
  /\ file = <<HeaderRow>>
  /\ header_writes = 1
  /\ InitMonitor

NextWriters ==
  \E t \in Writers :
    \/ \E d \in WriterSamples : Call(t, d)
    \/ AcquireLock(t)
    \/ OpenAppend(t)
    \/ OpenFails(t)
    \/ WriteRow(t)
    \/ CloseFile(t)
    \/ CloseFails(t)
    \/ ReleaseLock(t)

SpecWriters == InitWriters /\ [][NextWriters]_vars

\* ------------------------------------------------------------------ claims
CollectPcs == {"submit", "result_ping", "result_link", "result_info", "shutdown", "build"}
AppendPcs == {"write", "writing"}
TickPcs == CollectPcs \cup AppendPcs \cup {"progress", "sleep"}
RecordingFailures == {"header", "open", "write"}
Ended == pc \in {"done", "fatal"}

\* The rows the file holds for the samples ds, in their order.
RECURSIVE Rows(_)
Rows(ds) == IF ds = <<>> THEN <<>> ELSE <<DataRow(Head(ds))>> \o Rows(Tail(ds))

\* The least n with n * i >= d, for i > 0.
CeilDiv(d, i) == (d + i - 1) \div i

\* C1: samples are appended strictly in tick order: while tick N+1 is being
\* collected the rows of the ticks 1..N are all in the file, in tick order, and
\* no append is in progress; while a row is being appended no collection is in
\* progress.
C1_TickOrder ==
  /\ pc \in CollectPcs =>
       /\ Len(returned) = tick - 1
       /\ file = <<HeaderRow>> \o Rows(returned)
       /\ wpc["main"] = "idle" /\ wbuf["main"] = <<>> /\ data_lock = NoThread
  /\ (pc \in AppendPcs \/ wpc["main"] # "idle") =>
       /\ \A t \in Tasks : fut[t] = "done"
       /\ built = tick
       /\ Len(returned) = tick - 1

C1_Witness ==
  /\ pc = "result_ping" /\ tick = 2
  /\ Len(file) = 2 /\ file[2] = DataRow(returned[1])

\* C2: when the signal arrives after a tick's collection has begun, the run
\* ends without a fatal error, with that tick's sample appended as the last
\* whole row and no further tick begun (recording failures, which the
\* recorder's contract makes fatal, apart).
C2_CancelKeepsTick ==
  ( /\ Ended
    /\ cancel_at # None
    /\ cancel_at[1][2] \in TickPcs \ {"submit"}
    /\ fatal \notin RecordingFailures )
  => /\ pc = "done" /\ fatal = "none"
     /\ tick = cancel_at[1][1]
     /\ Len(returned) = tick
     /\ file = <<HeaderRow>> \o Rows(returned)
     /\ returned[tick] = data[1]

\* C3: a run that is not cancelled, with interval <= duration, appends at
\* least 1 and at most ceil(duration / interval) samples (recording failures
\* apart).
C3_TickCountBound ==
  ( /\ Ended
    /\ cancel_at = None
    /\ interval <= duration
    /\ fatal \notin RecordingFailures )
  => /\ Len(returned) >= 1
     /\ Len(returned) <= CeilDiv(duration, interval)

\* C2 and C3 fail only by the ValueError of C5: in every run that no parse
\* exception ends, both hold.
C2_ApartFromParseException == fatal # "parse" => C2_CancelKeepsTick
C3_ApartFromParseException == fatal # "parse" => C3_TickCountBound

\* C4: a recording failure is fatal: once open or the append has failed, run()
\* has ended with the error, the lock is free, the failed tick's row is not in
\* the file, and no step of a later tick can follow.
C4_RecordingFailureFatal ==
  fatal \in RecordingFailures =>
    /\ pc = "fatal"
    /\ ~ ENABLED Next
    /\ data_lock = NoThread
    /\ plots_calls = 0
    /\ fatal # "header" => built = tick /\ Len(returned) = tick - 1
    /\ file = IF fatal = "header" THEN <<>> ELSE <<HeaderRow>> \o Rows(returned)

C4_Witness ==
  /\ fatal = "write" /\ pc = "fatal"
  /\ tick = 2 /\ built = 2 /\ Len(file) = 2

\* C5: no parse exception ever comes out of an extractor, and every sample
\* holds a timestamp and, in every other field, a number or None.
OptionalNumber(v) == v = None \/ (Len(v) = 1 /\ v[1] \in Int)

C5_NoParseException ==
  /\ \A t \in Tasks : fut[t] # "raised"
  /\ ~ exc
  /\ fatal # "parse"
  /\ data # None =>
       /\ data[1].timestamp # ""
       /\ OptionalNumber(data[1].latency_ms)
       /\ OptionalNumber(data[1].rx_bitrate_mbps)
       /\ OptionalNumber(data[1].tx_bitrate_mbps)
       /\ OptionalNumber(data[1].signal_strength_dbm)
       /\ OptionalNumber(data[1].frequency_mhz)
       /\ OptionalNumber(data[1].width_mhz)
       /\ OptionalNumber(data[1].centre_frequency_mhz)
       /\ OptionalNumber(data[1].tx_power_dbm)

\* C6: once write_csv_header has been called it has been called once, and the
\* file is the header row followed by one row per write_data_row call that
\* has returned, in call order (and then the row of the call that has flushed
\* and not yet returned).
C6_FileShape ==
  header_writes > 0 =>
    /\ header_writes = 1
    /\ file = <<HeaderRow>> \o Rows(returned)
              \o (IF wpc["main"] = "release" THEN <<DataRow(wdata["main"][1])>> ELSE <<>>)

C6_Witness ==
  /\ Len(file) = 3 /\ Len(returned) = 2 /\ wpc["main"] = "idle"
  /\ file[2] # file[3]

\* C7: every call of collect_data_sample that has ended has produced exactly
\* one sample, and a sample is built only when all three futures are done.
C7_FanOutJoin ==
  /\ pc = "build" => \A t \in Tasks : fut[t] = "done"
  /\ pc \notin CollectPcs => built = tick
  /\ pc \in CollectPcs => built = tick - 1

\* C7 fails only by the ValueError of C5, which ends a call without a sample.
C7_ApartFromParseException == fatal # "parse" => C7_FanOutJoin

\* C8, as claimed: no wait of the loop begins at or after end_time.
C8_WaitSkippedAtEnd == late_waits = 0

\* C8, amended: every tick waits once after its progress line, whatever the
\* clock reads; the loop is left only at its check, after that wait.
C8_WaitEveryTick ==
  /\ pc \in {"loop", "summary", "done"} => waits = tick
  /\ pc \in TickPcs => waits = tick - 1
  /\ exit_reason # "none" => waits = Len(returned)

C8_Witness ==
  /\ pc = "done" /\ exit_reason = "completed"
  /\ late_waits = 1 /\ waits = tick /\ now >= end_time + interval

\* C9: when the loop has ended, completed or cancelled, create_plots is the
\* next step and is called once; it is not called before the loop has ended.
C9_SummaryOnce ==
  /\ exit_reason # "none" => pc \in {"summary", "done"}
  /\ pc = "summary" => ENABLED create_plots /\ exit_reason \in {"completed", "cancelled"}
  /\ pc = "done" => plots_calls = 1
  /\ pc # "done" => plots_calls = 0

C9_Witness ==
  /\ pc = "done" /\ exit_reason = "cancelled"
  /\ plots_calls = 1 /\ tick = 1 /\ Len(returned) = 1

\* C10: at most one caller of write_data_row is between taking the lock and
\* releasing it, so at most one has the file open; the file holds the header
\* and one whole row of some caller's sample per flush.
InCritical(t) == wpc[t] \in {"open", "writerow", "close", "release"}

C10_MutualExclusion ==
  /\ Cardinality({t \in Threads : InCritical(t)}) <= 1
  /\ \A t \in Threads : InCritical(t) <=> data_lock = t
  /\ file[1] = HeaderRow
  /\ \A i \in 2..Len(file) : \E d \in WriterSamples : file[i] = DataRow(d)
  /\ Len(file) = 1 + Len(returned) + Cardinality({t \in Threads : wpc[t] = "release"})

C10_Witness ==
  /\ wpc["w1"] = "close" /\ wpc["w2"] = "acquire"
  /\ wdata["w1"] # wdata["w2"]
  /\ Len(file) = 2

\* C11: the progress line of a tick shows the tick's latency whenever it is
\* present, 0.0 included, and 'N/A' only when it is absent.
C11_LatencyShown ==
  pc = "sleep" =>
    /\ shown # None
    /\ data[1].latency_ms # None => shown[1] = FloatText(data[1].latency_ms[1])
    /\ data[1].latency_ms = None <=> shown[1] = "N/A"

\* C11 fails only for a latency of 0.0, which `or` takes for absent.
C11_ApartFromZero == (data # None /\ data[1].latency_ms # Some(0)) => C11_LatencyShown

====
